---------------------------- MODULE Spec2Model ----------------------------
(***************************************************************************)
(* A model of src/src/redfin_scraper.py: the listing search with its       *)
(* fallback strategies (RedfinScraper.search_properties), the enrichment   *)
(* loop with its three coordinate-keyed caches                             *)
(* (PropertyAnalyzer.analyze_properties and the three analyzers) and the   *)
(* weighted score (PropertyAnalyzer._calculate_overall_score).             *)
(*                                                                         *)
(* Four specifications share the module's variables:                       *)
(*   Spec        one call of search_properties                             *)
(*   SpecEnrich  one call of analyze_properties, which a KeyboardInterrupt *)
(*               may end between any two statements                        *)
(*   SpecPar     the analyzers' lookups called from several threads        *)
(*   SpecScore   _calculate_overall_score on arbitrary stored signals      *)
(* A specification leaves the variables of the others at their initial     *)
(* values.                                                                 *)
(*                                                                         *)
(* Encodings.  An Optional value is a sequence: None is <<>> and Some(v)   *)
(* is <<v>>.  A latitude or longitude is an integer count of 0.00004       *)
(* degrees: grid points 0 and 1 round to 0.0000, 2 and 3 to 0.0001, and no *)
(* grid point lies on a rounding tie.  crime_score and school_score are in *)
(* tenths, market_distance in 1/225 mile, a weighted sum in 1/300 and an   *)
(* overall score in hundredths.                                            *)
(***************************************************************************)
EXTENDS Integers, Sequences, FiniteSets, TLC

VARIABLES
    \* ---- search_properties
    criteria,       \* the SearchCriteria of the call
    spc,            \* position in search_properties
    region_id,      \* local region_id (line 79)
    invoked,        \* the strategies called so far, in call order
    outcome,        \* what each called strategy produced
    result,         \* the list search_properties returns
    parse_errors,   \* "Error parsing property" events logged (line 297)
    locResp,        \* the location-search response, where it is examined
    gisResp,        \* the gis response, where it is examined
    \* ---- analyze_properties
    props,          \* the list being analyzed (mutated in place)
    idx,            \* loop index i of line 393 (1-based)
    apc,            \* position in the loop body / how the call ended
    caches,         \* the analyzers' dicts crime_cache, school_cache, market_cache
    computed,       \* per source and key: how often the signal was computed
    lookups,        \* per source and key: how often the lookup was called
    \* ---- threads calling the analyzers
    wpc,            \* per worker: position in the lookup it is running
    wsrc,           \* per worker: the source it is looking up
    wval,           \* per worker: local crime_score/school_score/distance
    \* ---- _calculate_overall_score
    sprop,          \* the listing handed to _calculate_overall_score
    sout,           \* the value it returned
    sagain,         \* the value a second call on the same listing returned
    \* ---- PropertyReportGenerator
    rin,            \* the properties argument of the two report methods
    rtop,           \* top_n of print_top_properties
    rsorted,        \* sorted_props (line 469)
    rview,          \* sorted_props[:top_n] (line 472)
    rprint,         \* how print_top_properties ended
    rdf,            \* the rows of the sorted DataFrame (line 461)
    rcsv            \* how generate_csv_report ended

searchVars ==
    <<criteria, spc, region_id, invoked, outcome, result, parse_errors,
      locResp, gisResp>>
cacheVars  == <<caches, computed, lookups>>
enrichVars == <<props, idx, apc>>
parVars    == <<wpc, wsrc, wval>>
scoreVars  == <<sprop, sout, sagain>>
rankVars   == <<rin, rtop, rsorted, rview, rprint, rdf, rcsv>>
vars == <<searchVars, cacheVars, enrichVars, parVars, scoreVars, rankVars>>

None == <<>>
Some(v) == <<v>>
Val(o) == o[1]

\* All sequences over S of length at most n.
SeqUpTo(S, n) == UNION {[1..k -> S] : k \in 0..n}

Max(a, b) == IF a >= b THEN a ELSE b
Abs(x) == IF x < 0 THEN 0 - x ELSE x


-----------------------------------------------------------------------------
(* Bounds of the model.                                                    *)

MaxPrice == 1
MaxBeds == 2
MaxRegion == 1
MaxRows == 1
MaxSections == 1
MaxAddr == 2
MaxHomes == 2
\* Stands for the ten entries of sample_addresses (lines 123-134).
NumSamples == 2

-----------------------------------------------------------------------------
(* SearchCriteria (lines 17-32).  The dataclass validates nothing: any     *)
(* pair of bounds constructs.  The bath range and the property types are   *)
(* read by no statement that decides what search_properties returns.       *)

PriceVals == 0..MaxPrice
BedVals == 1..MaxBeds

SearchCriteria ==
    [min_price : PriceVals, max_price : PriceVals,
     min_beds : BedVals, max_beds : BedVals]

\* The data model's validity condition (spec section 3); no code checks it.
ValidCriteria(c) ==
    /\ c.min_price >= 0
    /\ c.min_price <= c.max_price
    /\ c.min_beds <= c.max_beds

-----------------------------------------------------------------------------
(* _get_region_id (lines 164-219) as a function of the location-search     *)
(* response.  A row is its 'type' and its id.tableId, 0 standing for a     *)
(* missing or falsy tableId; a section is its rows (a section without      *)
(* 'rows' is skipped like one with no rows); exactMatch is its id.tableId, *)
(* 0 when the field or its id is missing.                                  *)

RowTypes == {"city", "neighborhood"}
Rows == [type : RowTypes, tableId : 0..MaxRegion]
LocResponses ==
    [kind : {"neterr", "badjson"}, sections : {<<>>}, exactMatch : {0}]
    \cup [kind : {"ok"},
          sections : SeqUpTo(SeqUpTo(Rows, MaxRows), MaxSections),
          exactMatch : 0..MaxRegion]

\* The scan of lines 194-199 not returning at its first hit: the last row
\* of the section typed "city" with a truthy id.
RECURSIVE CityInRowsLast(_)
CityInRowsLast(rows) ==
    IF rows = <<>> THEN None
    ELSE IF CityInRowsLast(Tail(rows)) # None
         THEN CityInRowsLast(Tail(rows))
         ELSE IF Head(rows).type = "city" /\ Head(rows).tableId # 0
              THEN Some(Head(rows).tableId)
              ELSE None

\* Lines 194-199: the first row of the section typed "city" with a truthy id.
RECURSIVE CityInRows(_)
CityInRows(rows) ==
    IF rows = <<>> THEN None
    ELSE IF Head(rows).type = "city" /\ Head(rows).tableId # 0
         THEN Some(Head(rows).tableId)
         ELSE CityInRows(Tail(rows))

\* Lines 192-199: sections in payload order.
RECURSIVE CityInSections(_)
CityInSections(sections) ==
    IF sections = <<>> THEN None
    ELSE IF CityInRows(Head(sections)) # None
         THEN CityInRows(Head(sections))
         ELSE CityInSections(Tail(sections))

\* _get_region_id reading exactMatch before the sections.
GetRegionIdExactFirst(resp) ==
    IF resp.kind # "ok" THEN None
    ELSE IF resp.exactMatch # 0
         THEN Some(resp.exactMatch)
         ELSE CityInSections(resp.sections)

get_region_id(resp) ==
    IF resp.kind # "ok" THEN None                      \* lines 213-219
    ELSE IF CityInSections(resp.sections) # None
         THEN CityInSections(resp.sections)            \* line 199
         ELSE IF resp.exactMatch # 0
              THEN Some(resp.exactMatch)               \* line 208
              ELSE None                                \* line 211

-----------------------------------------------------------------------------
(* _fetch_properties and _parse_property (lines 239-298).  A raw home is   *)
(* well formed or not (a field of the wrong type makes a .get raise), and  *)
(* carries its streetLine and its mlsId; a listing keeps, besides, the     *)
(* strategy that produced it.                                              *)

RawHomes ==
    [wellformed : BOOLEAN, streetLine : 1..MaxAddr,
     mlsId : {None, Some(<<"MLS", 1>>)}]
GisResponses ==
    [kind : {"neterr", "badjson"}, homes : {<<>>}]
    \cup [kind : {"ok"}, homes : SeqUpTo(RawHomes, MaxHomes)]

\* Lines 279-298: a Property, or None when building it raised.
parse_property(home) ==
    IF home.wellformed
    THEN Some([strategy |-> "primary", address |-> home.streetLine,
               price |-> 0, beds |-> 0, mls_id |-> home.mlsId])
    ELSE None

\* The loop of lines 262-265 given up at the first home that fails to parse.
RECURSIVE ParseHomesUntilBad(_)
ParseHomesUntilBad(homes) ==
    IF homes = <<>> THEN <<>>
    ELSE IF parse_property(Head(homes)) # None
         THEN <<Val(parse_property(Head(homes)))>>
                  \o ParseHomesUntilBad(Tail(homes))
         ELSE <<>>

\* Lines 262-265: the parsed homes, in payload order, the None ones left out.
RECURSIVE ParseHomes(_)
ParseHomes(homes) ==
    IF homes = <<>> THEN <<>>
    ELSE IF parse_property(Head(homes)) # None
         THEN <<Val(parse_property(Head(homes)))>> \o ParseHomes(Tail(homes))
         ELSE ParseHomes(Tail(homes))

\* Line 297: one logger.error for every home whose parse raised.
RECURSIVE ParseErrors(_)
ParseErrors(homes) ==
    IF homes = <<>> THEN 0
    ELSE (IF parse_property(Head(homes)) = None THEN 1 ELSE 0)
             + ParseErrors(Tail(homes))

fetch_properties(gis) ==
    IF gis.kind # "ok" THEN <<>>               \* lines 271-277
    ELSE ParseHomes(gis.homes)                 \* lines 257-270

\* Lines 96-114: the stub returns [] whatever the criteria.
search_alternative_method(c) == <<>>

-----------------------------------------------------------------------------
(* _generate_sample_data (lines 116-162).  random.randint(a, b) raises     *)
(* ValueError when a > b and otherwise draws from a..b.                    *)

SampleRaises(c) == c.min_price > c.max_price \/ c.min_beds > c.max_beds

\* SampleProperty without the identifier of line 157.
SamplePropertyUntagged(c, i, price, beds) ==
    [strategy |-> "synthetic", address |-> i, price |-> price, beds |-> beds,
     mls_id |-> None]

SampleProperty(c, i, price, beds) ==
    [strategy |-> "synthetic", address |-> i, price |-> price, beds |-> beds,
     mls_id |-> Some(<<"SAMPLE", 1000 + (i - 1)>>)]          \* line 157

\* SampleLists drawing price and beds from the whole value ranges, whatever
\* the criteria.
SampleListsAnyValue(c) ==
    {[i \in 1..NumSamples |-> SampleProperty(c, i, d[i][1], d[i][2])] :
        d \in [1..NumSamples -> PriceVals \X BedVals]}

\* Every list the loop of lines 140-159 can build for valid ranges.
SampleLists(c) ==
    {[i \in 1..NumSamples |-> SampleProperty(c, i, d[i][1], d[i][2])] :
        d \in [1..NumSamples ->
                 (c.min_price..c.max_price) \X (c.min_beds..c.max_beds)]}

-----------------------------------------------------------------------------
(* search_properties (lines 74-94), one action per strategy call.          *)

SearchInit ==
    /\ criteria \in SearchCriteria
    /\ spc = "start"
    /\ region_id = None
    /\ invoked = <<>>
    /\ outcome = [s \in {"primary", "secondary", "synthetic"} |-> "notcalled"]
    /\ result = <<>>
    /\ parse_errors = 0
    /\ locResp = None
    /\ gisResp = None

\* Lines 79-80 when the location search answers resp: resolve the region;
\* without one the primary fetch is skipped.
SearchResolveWith(resp) ==
    /\ spc = "start"
    /\ region_id' = get_region_id(resp)
    /\ IF get_region_id(resp) # None
       THEN /\ spc' = "fetch"
            /\ outcome' = outcome
       ELSE /\ spc' = "alternative"
            /\ outcome' = [outcome EXCEPT !["primary"] = "failed"]
    /\ invoked' = Append(invoked, "primary")
    /\ UNCHANGED <<criteria, result, parse_errors, gisResp>>

SearchResolve ==
    /\ spc = "start"
    /\ \E resp \in LocResponses : SearchResolveWith(resp) /\ locResp' = locResp

\* SearchFetch without the return of line 84: the search goes on.
SearchFetchNoReturn ==
    /\ spc = "fetch"
    /\ \E gis \in GisResponses :
        /\ result' = fetch_properties(gis)
        /\ spc' = "alternative"
        /\ outcome' = [outcome EXCEPT !["primary"] =
                         IF fetch_properties(gis) # <<>> THEN "nonempty"
                         ELSE IF gis.kind = "ok" THEN "empty" ELSE "failed"]
        /\ parse_errors' = parse_errors + ParseErrors(gis.homes)
    /\ UNCHANGED <<criteria, region_id, invoked, locResp, gisResp>>

\* Lines 81-84 when the gis request answers gis: fetch; a non-empty list is
\* returned at once.
SearchFetchWith(gis) ==
    /\ spc = "fetch"
    /\ IF fetch_properties(gis) # <<>>
       THEN /\ result' = fetch_properties(gis)
            /\ spc' = "returned"
            /\ outcome' = [outcome EXCEPT !["primary"] = "nonempty"]
       ELSE /\ result' = result
            /\ spc' = "alternative"
            /\ outcome' = [outcome EXCEPT !["primary"] =
                             IF gis.kind = "ok" THEN "empty" ELSE "failed"]
    /\ parse_errors' = parse_errors + ParseErrors(gis.homes)
    /\ UNCHANGED <<criteria, region_id, invoked, locResp>>

SearchFetch ==
    /\ spc = "fetch"
    /\ \E gis \in GisResponses : SearchFetchWith(gis) /\ gisResp' = gisResp

\* SearchAlternative starting the search over when the stub gives nothing.
SearchAlternativeRestarts ==
    /\ spc = "alternative"
    /\ invoked' = <<>>
    /\ result' = result
    /\ spc' = "start"
    /\ outcome' = [s \in {"primary", "secondary", "synthetic"} |-> "notcalled"]
    /\ UNCHANGED <<criteria, region_id, parse_errors, locResp, gisResp>>

\* Lines 87-90.
SearchAlternative ==
    /\ spc = "alternative"
    /\ invoked' = Append(invoked, "secondary")
    /\ IF search_alternative_method(criteria) # <<>>
       THEN /\ result' = search_alternative_method(criteria)
            /\ spc' = "returned"
            /\ outcome' = [outcome EXCEPT !["secondary"] = "nonempty"]
       ELSE /\ result' = result
            /\ spc' = "sample"
            /\ outcome' = [outcome EXCEPT !["secondary"] = "empty"]
    /\ UNCHANGED <<criteria, region_id, parse_errors, locResp, gisResp>>

\* Lines 93-94: the sample data, or the ValueError of random.randint.
SearchSample ==
    /\ spc = "sample"
    /\ invoked' = Append(invoked, "synthetic")
    /\ IF SampleRaises(criteria)
       THEN /\ result' = result
            /\ spc' = "raised"
            /\ outcome' = [outcome EXCEPT !["synthetic"] = "raised"]
       ELSE /\ result' \in SampleLists(criteria)
            /\ spc' = "returned"
            /\ outcome' = [outcome EXCEPT !["synthetic"] = "nonempty"]
    /\ UNCHANGED <<criteria, region_id, parse_errors, locResp, gisResp>>


-----------------------------------------------------------------------------
(* The search with one of its two responses kept for examination, over     *)
(* responses longer than those of LocResponses and GisResponses, and for   *)
(* criteria with few sample lists.                                         *)

MaxPayloadRows == 2
MaxBatch == 3

PayloadCriteria ==
    {c \in SearchCriteria : c.max_price = 0 /\ c.min_beds = 1 /\ c.max_beds = 1}

\* The criteria with one bed count, valid and not.
OneBedCriteria ==
    {c \in SearchCriteria : c.min_beds = 1 /\ c.max_beds = 1}

\* Rows of a location-search payload: city rows without an id and with two
\* different ids, and a row of another type.
PayloadRows ==
    {[type |-> "city", tableId |-> 0], [type |-> "city", tableId |-> 1],
     [type |-> "city", tableId |-> 2], [type |-> "neighborhood", tableId |-> 1]}

\* Up to MaxPayloadRows rows, cut into two sections at any place.
RegionPayloads ==
    [kind : {"neterr", "badjson"}, sections : {<<>>}, exactMatch : {0}]
    \cup UNION {{[kind |-> "ok",
                  sections |-> <<SubSeq(rows, 1, k),
                                 SubSeq(rows, k + 1, Len(rows))>>,
                  exactMatch |-> e] : k \in 0..Len(rows), e \in {0, 1, 2}} :
                rows \in SeqUpTo(PayloadRows, MaxPayloadRows)}

GisBatches ==
    [kind : {"neterr", "badjson"}, homes : {<<>>}]
    \cup [kind : {"ok"}, homes : SeqUpTo(RawHomes, MaxBatch)]

SearchInitWith(cs) ==
    /\ criteria \in cs
    /\ spc = "start"
    /\ region_id = None
    /\ invoked = <<>>
    /\ outcome = [s \in {"primary", "secondary", "synthetic"} |-> "notcalled"]
    /\ result = <<>>
    /\ parse_errors = 0
    /\ locResp = None
    /\ gisResp = None

\* SearchResolve, the response kept.
SearchResolveKept ==
    /\ spc = "start"
    /\ \E resp \in RegionPayloads :
          SearchResolveWith(resp) /\ locResp' = Some(resp)

\* SearchFetch, the response kept.
SearchFetchKept ==
    /\ spc = "fetch"
    /\ \E gis \in GisBatches : SearchFetchWith(gis) /\ gisResp' = Some(gis)

-----------------------------------------------------------------------------
(* The coordinate key of the three analyzers (lines 315, 342, 363):        *)
(* f"{latitude:.4f},{longitude:.4f}".  The format rounds the magnitude to  *)
(* four decimals and keeps the sign of a negative number, also when the    *)
(* magnitude rounds to zero ("-0.0000").  Formatting None raises           *)
(* TypeError; _parse_property stores whatever latLong holds.               *)

MaxCoord == 2
MaxProps == 2

\* '.4f' of x grid units: the sign and the count of 0.0001 degrees.
Fmt4(x) == [neg |-> x < 0, mag |-> (4 * Abs(x) + 5) \div 10]

coords_key(latitude, longitude) == <<Fmt4(latitude), Fmt4(longitude)>>

\* round(x, 4) as a number, in units of 0.0001 degrees: -0.0 equals 0.0.
Round4(x) == IF x < 0 THEN 0 - Fmt4(x).mag ELSE Fmt4(x).mag

LatVals == {Some(x) : x \in (0 - MaxCoord)..MaxCoord} \cup {None}
LonVals == {Some(1)}

\* A Property as analyze_properties reads and writes it (lines 45-54).
Unenriched(lat, lon) ==
    [latitude |-> lat, longitude |-> lon,
     crime_score |-> None, school_score |-> None,
     market_distance |-> None, overall_score |-> None]
Listings == {Unenriched(lat, lon) : lat \in LatVals, lon \in LonVals}

\* The simulated signals: grid points of random.uniform(2.0, 8.0) (line 322),
\* random.uniform(4.0, 9.5) (line 348) and random.uniform(0.3, 3.5) (line 375).
Sources == {"crime", "school", "market"}
Signals ==
    [crime |-> {20, 80}, school |-> {40, 95}, market |-> {68, 787}]

\* dict[key] = value.
\* A store that evicts: the dict keeps the new key alone.
StoreEvicting(dict, key, value) ==
    [k \in {key} |-> value]

Store(dict, key, value) ==
    [k \in DOMAIN dict \cup {key} |-> IF k = key THEN value ELSE dict[k]]

\* counter[key] += 1, a missing key counting 0.
Bump(counter, key) ==
    [k \in DOMAIN counter \cup {key} |->
        IF k = key
        THEN (IF key \in DOMAIN counter THEN counter[key] + 1 ELSE 1)
        ELSE counter[k]]

Count(counter, key) == IF key \in DOMAIN counter THEN counter[key] ELSE 0

CacheInit ==
    /\ caches = [s \in Sources |-> <<>>]
    /\ computed = [s \in Sources |-> <<>>]
    /\ lookups = [s \in Sources |-> <<>>]

-----------------------------------------------------------------------------
(* _calculate_overall_score (lines 415-433).  The three normalized values  *)
(* are kept as the numerators of exact fractions: crime and school over    *)
(* 100, market over 900.                                                   *)

crime_normalized(prop) == 100 - Val(prop.crime_score)              \* line 423
school_normalized(prop) == Val(prop.school_score)                  \* line 424
\* market_normalized without the max(0, ...) of line 425.
MarketNormalizedNoFloor(prop) == 900 - Val(prop.market_distance)

market_normalized(prop) == Max(0, 900 - Val(prop.market_distance)) \* line 425

\* Lines 427-431, in units of 1/300: weights 0.3, 0.4, 0.3 and the factor 10.
overall(prop) ==
    9 * crime_normalized(prop) + 12 * school_normalized(prop)
        + market_normalized(prop)

\* round(x, 2) of x/300, in hundredths; a third is never a tie.
Round2(x) == (x + 1) \div 3

calculate_overall_score(prop) == Round2(overall(prop))             \* line 433

-----------------------------------------------------------------------------
(* analyze_properties (lines 389-413), one action per statement of the     *)
(* loop body, so that a KeyboardInterrupt (caught at lines 548-549) can    *)
(* land between any two of them.                                           *)

EnrichInit ==
    /\ props \in SeqUpTo(Listings, MaxProps)
    /\ idx = 1
    /\ apc = "start"

CanFormat(prop) == prop.latitude # None /\ prop.longitude # None
KeyOf(prop) == coords_key(Val(prop.latitude), Val(prop.longitude))

\* Lines 391-393: enter the loop, or return at once on an empty list.
AnalyzeStart ==
    /\ apc = "start"
    /\ apc' = IF props = <<>> THEN "returned" ELSE "crime"
    /\ UNCHANGED <<props, idx, cacheVars>>

\* GetScore without the membership test of lines 316-317: always recompute.
GetScoreNoCache(src, field, at, next) ==
    /\ apc = at
    /\ IF ~CanFormat(props[idx])
       THEN /\ apc' = "raised"
            /\ UNCHANGED <<props, cacheVars>>
       ELSE LET key == KeyOf(props[idx]) IN
            /\ lookups' = [lookups EXCEPT ![src] = Bump(@, key)]
            /\ \E v \in Signals[src] :
                    /\ caches' = [caches EXCEPT ![src] = Store(@, key, v)]
                    /\ computed' = [computed EXCEPT ![src] = Bump(@, key)]
                    /\ props' = [props EXCEPT ![idx][field] = Some(v)]
            /\ apc' = next
    /\ UNCHANGED idx

\* One analyzer lookup for props[idx], its result stored in `field`
\* (get_crime_score 306-326, get_school_score 334-352,
\* get_market_distance 361-379): raise on a coordinate that cannot be
\* formatted, return the cached value, or draw, store and return a new one.
GetScore(src, field, at, next) ==
    /\ apc = at
    /\ IF ~CanFormat(props[idx])
       THEN /\ apc' = "raised"
            /\ UNCHANGED <<props, cacheVars>>
       ELSE LET key == KeyOf(props[idx]) IN
            /\ lookups' = [lookups EXCEPT ![src] = Bump(@, key)]
            /\ IF key \in DOMAIN caches[src]
               THEN /\ props' = [props EXCEPT ![idx][field] =
                                    Some(caches[src][key])]
                    /\ UNCHANGED <<caches, computed>>
               ELSE \E v \in Signals[src] :
                    /\ caches' = [caches EXCEPT ![src] = Store(@, key, v)]
                    /\ computed' = [computed EXCEPT ![src] = Bump(@, key)]
                    /\ props' = [props EXCEPT ![idx][field] = Some(v)]
            /\ apc' = next
    /\ UNCHANGED idx

GetCrimeScore == GetScore("crime", "crime_score", "crime", "school")
GetSchoolScore == GetScore("school", "school_score", "school", "market")
GetMarketDistance == GetScore("market", "market_distance", "market", "overall")

\* Line 408 storing the weighted sum without the rounding of line 433.
SetOverallScoreUnrounded ==
    /\ apc = "overall"
    /\ props' = [props EXCEPT ![idx].overall_score = Some(overall(props[idx]))]
    /\ apc' = "sleep"
    /\ UNCHANGED <<idx, cacheVars>>

\* Line 408.
SetOverallScore ==
    /\ apc = "overall"
    /\ props' = [props EXCEPT ![idx].overall_score =
                    Some(calculate_overall_score(props[idx]))]
    /\ apc' = "sleep"
    /\ UNCHANGED <<idx, cacheVars>>

\* Sleep with a loop that steps over every other listing.
SleepSkips ==
    /\ apc = "sleep"
    /\ idx' = idx + 2
    /\ apc' = IF idx + 2 > Len(props) THEN "returned" ELSE "crime"
    /\ UNCHANGED <<props, cacheVars>>

\* Line 411, then the next iteration or the return of line 413.
Sleep ==
    /\ apc = "sleep"
    /\ idx' = idx + 1
    /\ apc' = IF idx + 1 > Len(props) THEN "returned" ELSE "crime"
    /\ UNCHANGED <<props, cacheVars>>

Running == apc \in {"crime", "school", "market", "overall", "sleep"}

\* KeyboardInterrupt while the loop runs: the call is abandoned where it is.
Interrupt ==
    /\ Running
    /\ apc' = "interrupted"
    /\ UNCHANGED <<props, idx, cacheVars>>


-----------------------------------------------------------------------------
(* The analyzers called from NumWorkers threads, worker w enriching        *)
(* props[w] as one iteration of the loop body does.  A thread switch can   *)
(* fall between any two statements of a lookup: the membership test (316,  *)
(* 343, 364), the draw (322, 348, 375) and the store (323, 349, 376).  No  *)
(* statement of the three methods takes a lock.                            *)

NumWorkers == 2

Workers == 1..NumWorkers
FieldOf ==
    [crime |-> "crime_score", school |-> "school_score",
     market |-> "market_distance"]
NextSource == [crime |-> "school", school |-> "market", market |-> "none"]

ParListings ==
    {Unenriched(Some(x), Some(1)) : x \in {0, 1, 2}}

ParInit ==
    /\ props \in [Workers -> ParListings]
    /\ idx = 1
    /\ apc = "workers"
    /\ wpc = [w \in Workers |-> "check"]
    /\ wsrc = [w \in Workers |-> "crime"]
    /\ wval = [w \in Workers |-> 0]

\* The caller's assignment of the returned value (lines 397-405) and the
\* move to the next lookup, or to line 408 after the third.
Returned(w, v) ==
    /\ props' = [props EXCEPT ![w][FieldOf[wsrc[w]]] = Some(v)]
    /\ wsrc' = [wsrc EXCEPT ![w] = NextSource[@]]
    /\ wpc' = [wpc EXCEPT ![w] =
                  IF NextSource[wsrc[w]] = "none" THEN "overall" ELSE "check"]

\* Lines 315-317 (342-344, 363-365): the key and the membership test.
ParCheck(w) ==
    /\ wpc[w] = "check"
    /\ LET key == KeyOf(props[w]) IN
        /\ lookups' = [lookups EXCEPT ![wsrc[w]] = Bump(@, key)]
        /\ IF key \in DOMAIN caches[wsrc[w]]
           THEN Returned(w, caches[wsrc[w]][key])
           ELSE /\ wpc' = [wpc EXCEPT ![w] = "compute"]
                /\ UNCHANGED <<props, wsrc>>
    /\ UNCHANGED <<caches, computed, wval, idx, apc>>

\* Line 322 (348, 375): the signal is computed.
ParCompute(w) ==
    /\ wpc[w] = "compute"
    /\ \E v \in Signals[wsrc[w]] : wval' = [wval EXCEPT ![w] = v]
    /\ computed' = [computed EXCEPT ![wsrc[w]] = Bump(@, KeyOf(props[w]))]
    /\ wpc' = [wpc EXCEPT ![w] = "store"]
    /\ UNCHANGED <<props, wsrc, caches, lookups, idx, apc>>

\* Lines 323-326 (349-352, 376-379): store and return the local value.
ParStore(w) ==
    /\ wpc[w] = "store"
    /\ caches' = [caches EXCEPT ![wsrc[w]] = Store(@, KeyOf(props[w]), wval[w])]
    /\ Returned(w, wval[w])
    /\ UNCHANGED <<computed, lookups, wval, idx, apc>>

\* Line 408.
ParOverall(w) ==
    /\ wpc[w] = "overall"
    /\ props' = [props EXCEPT ![w].overall_score =
                    Some(calculate_overall_score(props[w]))]
    /\ wpc' = [wpc EXCEPT ![w] = "done"]
    /\ UNCHANGED <<wsrc, wval, cacheVars, idx, apc>>

-----------------------------------------------------------------------------
(* _calculate_overall_score called on a listing whose three signals hold   *)
(* arbitrary numbers, those outside the analyzers' ranges included.        *)

CrimeIn == {-20, 0, 20, 100, 120}
SchoolIn == {-20, 0, 80, 100, 120}
MarketIn == {-225, 0, 225, 900, 1125}

ScoreInit ==
    /\ sprop \in [crime_score : {Some(c) : c \in CrimeIn},
                  school_score : {Some(c) : c \in SchoolIn},
                  market_distance : {Some(d) : d \in MarketIn}]
    /\ sout = None
    /\ sagain = None

\* What one call computes: the locals of lines 423-425 and the returned value.
ScoreCall(prop) ==
    [crime_normalized |-> crime_normalized(prop),
     school_normalized |-> school_normalized(prop),
     market_normalized |-> market_normalized(prop),
     overall_score |-> calculate_overall_score(prop)]

\* CalculateOverallScore normalizing in place: line 423 written as
\* prop.crime_score = (10 - prop.crime_score) / 10, here kept in tenths.
CalculateOverallScoreInPlace ==
    /\ sout = None
    /\ sout' = Some(ScoreCall(sprop))
    /\ sprop' = [sprop EXCEPT !.crime_score =
                    Some((100 - Val(sprop.crime_score)) \div 10)]
    /\ UNCHANGED <<sagain, cacheVars>>

\* One call: it reads the three signals of prop and writes nothing.
CalculateOverallScore ==
    /\ sout = None
    /\ sout' = Some(ScoreCall(sprop))
    /\ UNCHANGED <<sprop, sagain, cacheVars>>

\* Between two calls the analyzers go on: one lookup of some source at the
\* coordinates (1, 1), as GetScore does it.
LookupBetween ==
    /\ sout # None
    /\ sagain = None
    /\ \E src \in Sources :
        LET key == coords_key(1, 1) IN
        /\ key \notin DOMAIN caches[src]
        /\ lookups' = [lookups EXCEPT ![src] = Bump(@, key)]
        /\ \E v \in Signals[src] :
            /\ caches' = [caches EXCEPT ![src] = Store(@, key, v)]
            /\ computed' = [computed EXCEPT ![src] = Bump(@, key)]
    /\ UNCHANGED <<sprop, sout, sagain>>

\* A second call on the same listing.
CalculateAgain ==
    /\ sout # None
    /\ sagain = None
    /\ sagain' = Some(ScoreCall(sprop))
    /\ UNCHANGED <<sprop, sout, cacheVars>>

-----------------------------------------------------------------------------
(* PropertyReportGenerator (lines 435-481).  A listing handed to the       *)
(* report is one the pipeline can hold: never enriched (all four fields    *)
(* None) or enriched, its overall_score computed from its three signals.   *)

MaxRank == 3

RankSignals ==
    {<<20, 95, 68>>, <<80, 40, 787>>}
Enriched(a, sig) ==
    LET p == [address |-> a, crime_score |-> Some(sig[1]),
              school_score |-> Some(sig[2]), market_distance |-> Some(sig[3])]
    IN [address |-> a, crime_score |-> p.crime_score,
        school_score |-> p.school_score,
        market_distance |-> p.market_distance,
        overall_score |-> Some(calculate_overall_score(p))]
NotEnriched(a) ==
    [address |-> a, crime_score |-> None, school_score |-> None,
     market_distance |-> None, overall_score |-> None]
\* The lists of n listings, the listing at position a having address a.
RankLists(n) ==
    {l \in [1..n -> {NotEnriched(a) : a \in 1..n}
                      \cup {Enriched(a, sig) : a \in 1..n, sig \in RankSignals}] :
        \A a \in 1..n : l[a].address = a}

\* The sort key turned around: lambda x: x.overall_score or 0, with
\* ascending order (no reverse=True).
SortKeyNegated(prop) ==
    IF prop.overall_score = None THEN 0 ELSE 0 - Val(prop.overall_score)

\* Line 469: lambda x: x.overall_score or 0.
SortKey(prop) ==
    IF prop.overall_score = None \/ Val(prop.overall_score) = 0
    THEN 0 ELSE Val(prop.overall_score)

\* x put into a descending list behind every element whose key is not
\* smaller: equal keys keep their input order.
RECURSIVE InsertDesc(_, _)
InsertDesc(x, l) ==
    IF l = <<>> THEN <<x>>
    ELSE IF SortKey(Head(l)) >= SortKey(x)
         THEN <<Head(l)>> \o InsertDesc(x, Tail(l))
         ELSE <<x>> \o l

\* sorted(properties, key=..., reverse=True): stable, descending (line 469).
RECURSIVE SortedDesc(_)
SortedDesc(l) ==
    IF l = <<>> THEN <<>>
    ELSE InsertDesc(l[Len(l)], SortedDesc(SubSeq(l, 1, Len(l) - 1)))

\* l[:n] for n >= 0 (line 472).
Prefix(l, n) == SubSeq(l, 1, IF n < Len(l) THEN n ELSE Len(l))

\* Lines 477-479 format crime_score, school_score and market_distance with
\* ':.1f', which raises TypeError on None.
Printable(prop) ==
    /\ prop.crime_score # None
    /\ prop.school_score # None
    /\ prop.market_distance # None

\* df.sort_values('Overall Score', ascending=False) (line 461): descending,
\* the missing scores (NaN) last, rows of equal score in no promised order.
NanLastDesc(l) ==
    \A i, j \in 1..Len(l) :
        i < j =>
            \/ l[j].overall_score = None
            \/ /\ l[i].overall_score # None
               /\ Val(l[i].overall_score) >= Val(l[j].overall_score)
Reorderings(l) ==
    {[i \in 1..Len(l) |-> l[f[i]]] :
        f \in {g \in [1..Len(l) -> 1..Len(l)] :
                 \A i, j \in 1..Len(l) : g[i] = g[j] => i = j}}
SortValues(l) == {o \in Reorderings(l) : NanLastDesc(o)}

RankInit ==
    /\ rin \in UNION {RankLists(n) : n \in 0..MaxRank}
    /\ rtop = 0
    /\ rsorted = <<>>
    /\ rview = <<>>
    /\ rprint = "idle"
    /\ rdf = <<>>
    /\ rcsv = "idle"

\* print_top_properties (lines 467-481) for a top_n >= 0.
PrintTopProperties ==
    /\ rprint = "idle"
    /\ \E top_n \in 0..(MaxRank + 1) :
        /\ rtop' = top_n
        /\ rsorted' = SortedDesc(rin)
        /\ rview' = Prefix(SortedDesc(rin), top_n)
        /\ rprint' =
              IF \A i \in 1..Len(Prefix(SortedDesc(rin), top_n)) :
                    Printable(Prefix(SortedDesc(rin), top_n)[i])
              THEN "printed" ELSE "raised"
    /\ UNCHANGED <<rin, rdf, rcsv>>

\* generate_csv_report (lines 439-464): an empty list gives a DataFrame
\* without columns, on which sort_values raises KeyError.
GenerateCsvReport ==
    /\ rcsv = "idle"
    /\ IF rin = <<>>
       THEN rcsv' = "raised" /\ rdf' = rdf
       ELSE rcsv' = "returned" /\ rdf' \in SortValues(rin)
    /\ UNCHANGED <<rin, rtop, rsorted, rview, rprint>>

-----------------------------------------------------------------------------
(* The specifications.                                                     *)

SearchIdle ==
    /\ criteria = [min_price |-> 0, max_price |-> 0,
                   min_beds |-> 1, max_beds |-> 1]
    /\ spc = "idle"
    /\ region_id = None
    /\ invoked = <<>>
    /\ outcome = [s \in {"primary", "secondary", "synthetic"} |-> "notcalled"]
    /\ result = <<>>
    /\ parse_errors = 0
    /\ locResp = None
    /\ gisResp = None

EnrichIdle == props = <<>> /\ idx = 1 /\ apc = "idle"
ParIdle == wpc = <<>> /\ wsrc = <<>> /\ wval = <<>>
ScoreIdle == sprop = None /\ sout = None /\ sagain = None
RankIdle ==
    /\ rin = <<>> /\ rtop = 0 /\ rsorted = <<>> /\ rview = <<>>
    /\ rprint = "idle" /\ rdf = <<>> /\ rcsv = "idle"

Init ==
    SearchInit /\ CacheInit /\ EnrichIdle /\ ParIdle /\ ScoreIdle /\ RankIdle
Next ==
    \/ SearchResolve /\ UNCHANGED <<cacheVars, enrichVars, parVars, scoreVars, rankVars>>
    \/ SearchFetch /\ UNCHANGED <<cacheVars, enrichVars, parVars, scoreVars, rankVars>>
    \/ SearchAlternative
         /\ UNCHANGED <<cacheVars, enrichVars, parVars, scoreVars, rankVars>>
    \/ SearchSample /\ UNCHANGED <<cacheVars, enrichVars, parVars, scoreVars, rankVars>>
Spec == Init /\ [][Next]_vars

\* search_properties is sequential code: a step that can be taken is taken,
\* provided the HTTP request of the step returns or fails.
InitLive ==
    /\ SearchInitWith(OneBedCriteria)
    /\ CacheInit /\ EnrichIdle /\ ParIdle /\ ScoreIdle /\ RankIdle
SpecLive == InitLive /\ [][Next]_vars /\ WF_vars(Next)

InitRegion ==
    /\ SearchInitWith({c \in PayloadCriteria : ValidCriteria(c)})
    /\ CacheInit /\ EnrichIdle /\ ParIdle /\ ScoreIdle /\ RankIdle
NextRegion ==
    \/ SearchResolveKept
         /\ UNCHANGED <<cacheVars, enrichVars, parVars, scoreVars, rankVars>>
    \/ SearchFetch /\ UNCHANGED <<cacheVars, enrichVars, parVars, scoreVars, rankVars>>
    \/ SearchAlternative
         /\ UNCHANGED <<cacheVars, enrichVars, parVars, scoreVars, rankVars>>
    \/ SearchSample /\ UNCHANGED <<cacheVars, enrichVars, parVars, scoreVars, rankVars>>
SpecRegion == InitRegion /\ [][NextRegion]_vars

InitFetch ==
    /\ SearchInitWith(PayloadCriteria)
    /\ CacheInit /\ EnrichIdle /\ ParIdle /\ ScoreIdle /\ RankIdle
NextFetch ==
    \/ SearchResolve /\ UNCHANGED <<cacheVars, enrichVars, parVars, scoreVars, rankVars>>
    \/ SearchFetchKept
         /\ UNCHANGED <<cacheVars, enrichVars, parVars, scoreVars, rankVars>>
    \/ SearchAlternative
         /\ UNCHANGED <<cacheVars, enrichVars, parVars, scoreVars, rankVars>>
    \/ SearchSample /\ UNCHANGED <<cacheVars, enrichVars, parVars, scoreVars, rankVars>>
SpecFetch == InitFetch /\ [][NextFetch]_vars

InitEnrich ==
    SearchIdle /\ CacheInit /\ EnrichInit /\ ParIdle /\ ScoreIdle /\ RankIdle
NextEnrich ==
    \/ AnalyzeStart /\ UNCHANGED <<searchVars, parVars, scoreVars, rankVars>>
    \/ GetCrimeScore /\ UNCHANGED <<searchVars, parVars, scoreVars, rankVars>>
    \/ GetSchoolScore /\ UNCHANGED <<searchVars, parVars, scoreVars, rankVars>>
    \/ GetMarketDistance /\ UNCHANGED <<searchVars, parVars, scoreVars, rankVars>>
    \/ SetOverallScore /\ UNCHANGED <<searchVars, parVars, scoreVars, rankVars>>
    \/ Sleep /\ UNCHANGED <<searchVars, parVars, scoreVars, rankVars>>
    \/ Interrupt /\ UNCHANGED <<searchVars, parVars, scoreVars, rankVars>>
SpecEnrich == InitEnrich /\ [][NextEnrich]_vars

InitPar == SearchIdle /\ CacheInit /\ ParInit /\ ScoreIdle /\ RankIdle
NextPar ==
    \E w \in Workers :
        \/ ParCheck(w) /\ UNCHANGED <<searchVars, scoreVars, rankVars>>
        \/ ParCompute(w) /\ UNCHANGED <<searchVars, scoreVars, rankVars>>
        \/ ParStore(w) /\ UNCHANGED <<searchVars, scoreVars, rankVars>>
        \/ ParOverall(w) /\ UNCHANGED <<searchVars, scoreVars, rankVars>>
SpecPar == InitPar /\ [][NextPar]_vars

InitScore ==
    SearchIdle /\ CacheInit /\ EnrichIdle /\ ParIdle /\ ScoreInit /\ RankIdle
NextScore ==
    \/ CalculateOverallScore /\ UNCHANGED <<searchVars, enrichVars, parVars, rankVars>>
    \/ LookupBetween /\ UNCHANGED <<searchVars, enrichVars, parVars, rankVars>>
    \/ CalculateAgain /\ UNCHANGED <<searchVars, enrichVars, parVars, rankVars>>
SpecScore == InitScore /\ [][NextScore]_vars

InitRank ==
    SearchIdle /\ CacheInit /\ EnrichIdle /\ ParIdle /\ ScoreIdle /\ RankInit
NextRank ==
    \/ PrintTopProperties
         /\ UNCHANGED <<searchVars, cacheVars, enrichVars, parVars, scoreVars>>
    \/ GenerateCsvReport
         /\ UNCHANGED <<searchVars, cacheVars, enrichVars, parVars, scoreVars>>
SpecRank == InitRank /\ [][NextRank]_vars


-----------------------------------------------------------------------------
(* Properties of search_properties, checked under Spec.                    *)

IsSampleTag(m) == m # None /\ Val(m)[1] = "SAMPLE"

\* The first strategy, in call order, that produced a non-empty list.
FirstNonEmpty ==
    IF outcome["primary"] = "nonempty" THEN "primary"
    ELSE IF outcome["secondary"] = "nonempty" THEN "secondary"
    ELSE "synthetic"

\* C1: for valid criteria the returned list is non-empty, all of its
\* listings come from the first strategy that produced a non-empty list, the
\* listings of the synthetic fallback all carry the SAMPLE identifier, and
\* no list holds listings of two strategies.
C1_OneStrategyResult ==
    (spc = "returned" /\ ValidCriteria(criteria)) =>
        /\ result # <<>>
        /\ \/ /\ FirstNonEmpty # "synthetic"
              /\ \A i \in 1..Len(result) : result[i].strategy = FirstNonEmpty
           \/ \A i \in 1..Len(result) :
                 /\ result[i].strategy = "synthetic"
                 /\ IsSampleTag(result[i].mls_id)
        /\ \A i, j \in 1..Len(result) : result[i].strategy = result[j].strategy

\* C1 witness: a fallback result returned after the primary fetch came back
\* empty.
C1_Witness ==
    /\ spc = "returned"
    /\ ValidCriteria(criteria)
    /\ outcome["primary"] = "empty"
    /\ Len(result) = NumSamples
    /\ result[1].strategy = "synthetic"

\* C2: the strategies are called in the order primary, secondary, synthetic;
\* a strategy is called only after the one before it came back empty or
\* failed, and none is called after a non-empty result.
C2_StrategyOrder ==
    /\ invoked \in {<<>>, <<"primary">>, <<"primary", "secondary">>,
                    <<"primary", "secondary", "synthetic">>}
    /\ Len(invoked) >= 2 => outcome["primary"] \in {"empty", "failed"}
    /\ Len(invoked) >= 3 => outcome["secondary"] \in {"empty", "failed"}
    /\ outcome["primary"] = "nonempty" => invoked = <<"primary">>
    /\ outcome["secondary"] = "nonempty" => Len(invoked) = 2

\* C2 witness: all three strategies were called, the primary one having
\* fetched an empty batch.
C2_Witness ==
    /\ spc = "returned"
    /\ Len(invoked) = 3
    /\ region_id # None
    /\ outcome["primary"] = "empty"

\* C8 as stated: with invalid criteria no strategy is ever called.
C8_InvalidCriteriaStopAtOnce ==
    ~ValidCriteria(criteria) => invoked = <<>>

-----------------------------------------------------------------------------
(* Properties of analyze_properties, checked under SpecEnrich.             *)

Populated(prop) ==
    /\ prop.crime_score # None
    /\ prop.school_score # None
    /\ prop.market_distance # None
    /\ prop.overall_score # None
Untouched(prop) ==
    /\ prop.crime_score = None
    /\ prop.school_score = None
    /\ prop.market_distance = None
    /\ prop.overall_score = None

KeysSeen(src) == DOMAIN lookups[src]

\* C3: a key looked up N >= 1 times on a source had its signal computed
\* exactly once, and every listing's stored signal is the cached value of
\* its key.
C3_ComputedOncePerKey ==
    \A src \in Sources :
        /\ \A key \in KeysSeen(src) : Count(computed[src], key) = 1
        /\ \A i \in 1..Len(props) :
              props[i][FieldOf[src]] # None =>
                  /\ KeyOf(props[i]) \in DOMAIN caches[src]
                  /\ props[i][FieldOf[src]] =
                        Some(caches[src][KeyOf(props[i])])

\* C3 witness: the same key was looked up twice on every source.
C3_Witness ==
    /\ apc = "returned"
    /\ \E key \in KeysSeen("crime") :
          /\ lookups["crime"][key] = 2
          /\ lookups["school"][key] = 2
          /\ lookups["market"][key] = 2

SameBucket(p, q) ==
    /\ Round4(Val(p.latitude)) = Round4(Val(q.latitude))
    /\ Round4(Val(p.longitude)) = Round4(Val(q.longitude))

\* How often src computed a signal for the rounding bucket of listing p.
RECURSIVE SumOver(_, _)
SumOver(counter, keys) ==
    IF keys = {} THEN 0
    ELSE LET k == CHOOSE x \in keys : TRUE
         IN counter[k] + SumOver(counter, keys \ {k})
BucketComputes(src, p) ==
    SumOver(computed[src],
            {k \in DOMAIN computed[src] :
                \E i \in 1..Len(props) :
                    KeyOf(props[i]) = k /\ SameBucket(props[i], p)})

\* C4 as stated: after analyze_properties two listings whose coordinates
\* round to the same 4-decimal values have equal signals, and each source
\* computed at most once for their bucket.
C4_SameBucketSharesLookup ==
    apc = "returned" =>
        \A i, j \in 1..Len(props) :
            SameBucket(props[i], props[j]) =>
                /\ props[i].crime_score = props[j].crime_score
                /\ props[i].school_score = props[j].school_score
                /\ props[i].market_distance = props[j].market_distance
                /\ \A src \in Sources : BucketComputes(src, props[i]) <= 1

\* C6: when analyze_properties returns, every listing of its input has all
\* four enrichment fields set.
C6_AllPopulatedOnReturn ==
    apc = "returned" => \A i \in 1..Len(props) : Populated(props[i])

\* C6 witness: a return after the loop ran over MaxProps listings.
C6_Witness ==
    /\ apc = "returned"
    /\ Len(props) = MaxProps
    /\ idx = MaxProps + 1

\* C7 as stated: after an interrupt every listing has all four enrichment
\* fields or none.
C7_InterruptLeavesNoHalf ==
    apc = "interrupted" =>
        \A i \in 1..Len(props) : Populated(props[i]) \/ Untouched(props[i])

\* C9 as stated: a lookup that fails does not end the loop.
C9_FailureDoesNotAbort ==
    apc # "raised"

-----------------------------------------------------------------------------
(* The lookups under threads, checked under SpecPar.                       *)

\* C5 as stated: concurrent first lookups of one key on one source compute
\* the signal at most once and hand every caller the same value.
C5_SingleFlight ==
    \A src \in Sources :
        /\ \A key \in DOMAIN computed[src] : computed[src][key] <= 1
        /\ \A v, w \in Workers :
              (/\ KeyOf(props[v]) = KeyOf(props[w])
               /\ props[v][FieldOf[src]] # None
               /\ props[w][FieldOf[src]] # None)
                  => props[v][FieldOf[src]] = props[w][FieldOf[src]]

-----------------------------------------------------------------------------
(* _calculate_overall_score, checked under SpecScore.                      *)

\* C10 as stated: whatever the stored signals, each normalized value lies
\* in [0,1] and the score in [0,10].
C10_ScoreInRange ==
    sout # None =>
        /\ Val(sout).crime_normalized \in 0..100
        /\ Val(sout).school_normalized \in 0..100
        /\ Val(sout).market_normalized \in 0..900
        /\ Val(sout).overall_score \in 0..1000


\* The signals lie in the ranges of the data model: crime and school in
\* [0,10], market_distance >= 0.
SignalsInRange(prop) ==
    /\ Val(prop.crime_score) \in 0..100
    /\ Val(prop.school_score) \in 0..100
    /\ Val(prop.market_distance) >= 0

\* 300 times 10 * (0.3*(10 - crime)/10 + 0.4*school/10
\*                  + 0.3*max(0, (4 - market)/4)), an integer on the grid.
Formula300(c, s, d) ==
    9 * (100 - c) + 12 * s + (IF d >= 900 THEN 0 ELSE 900 - d)

\* r hundredths is the two-decimal number nearest to x/300.
Nearest(r, x) == 3 * r - x \in {0 - 1, 0, 1}

\* C11: for signals in range the returned score is the formula's value
\* rounded to two decimals; crime 2, school 8, market 1.0 give 7.85; and a
\* market_distance of 4 or more gives the score of market_distance 4.
C11_ScoreFormula ==
    (sout # None /\ SignalsInRange(sprop)) =>
        LET c == Val(sprop.crime_score)
            s == Val(sprop.school_score)
            d == Val(sprop.market_distance)
            r == Val(sout).overall_score
        IN  /\ Nearest(r, Formula300(c, s, d))
            /\ (c = 20 /\ s = 80 /\ d = 225) => r = 785
            /\ d >= 900 => Nearest(r, Formula300(c, s, 900))

\* C11 witness: the call on crime 2, school 8, market 1.0 returned 7.85.
C11_Witness ==
    /\ sout # None
    /\ sprop = [crime_score |-> Some(20), school_score |-> Some(80),
                market_distance |-> Some(225)]
    /\ Val(sout).overall_score = 785

\* C12: a second call on the same signals returns what the first returned,
\* whatever lookups ran in between, and a call changes neither the listing
\* nor a cache.
C12_ScorePure ==
    /\ [](sagain # None => sagain = sout)
    /\ [][(sout' # sout \/ sagain' # sagain) =>
            (sprop' = sprop /\ caches' = caches)]_vars

\* C12 witness: a second call returned after lookups filled the caches.
C12_Witness ==
    /\ sagain # None
    /\ caches["crime"] # <<>>
    /\ caches["market"] # <<>>


-----------------------------------------------------------------------------
(* The report methods, checked under SpecRank.                             *)

\* out holds the listings of l, each exactly once (addresses are distinct).
SameListings(out, l) ==
    /\ Len(out) = Len(l)
    /\ \A i \in 1..Len(l) : \E j \in 1..Len(out) : out[j] = l[i]

\* The score a listing is ranked by, a missing one counting 0.
ScoreOrZero(prop) ==
    IF prop.overall_score = None THEN 0 ELSE Val(prop.overall_score)
Descending(out) ==
    \A i, j \in 1..Len(out) : i < j => ScoreOrZero(out[i]) >= ScoreOrZero(out[j])

\* C13: both rankings are a permutation of the input in descending order of
\* overall_score, a missing score ordered as 0, and the top-n view is the
\* first min(n, length) listings of the ranking.
C13_RankIsSortedPermutation ==
    /\ rprint # "idle" =>
          /\ SameListings(rsorted, rin)
          /\ Descending(rsorted)
          /\ Len(rview) = (IF rtop < Len(rin) THEN rtop ELSE Len(rin))
          /\ \A i \in 1..Len(rview) : rview[i] = rsorted[i]
    /\ rcsv = "returned" =>
          /\ SameListings(rdf, rin)
          /\ Descending(rdf)

\* C13 witness: both rankings were made of MaxRank listings, one of them
\* without a score and first in the input, and a top-2 view was taken.
C13_Witness ==
    /\ rprint # "idle"
    /\ rcsv = "returned"
    /\ Len(rin) = MaxRank
    /\ rin[1].overall_score = None
    /\ rin[2].overall_score # None
    /\ rtop = 2

\* C14 as stated: on a list holding listings without overall_score neither
\* method raises, and such listings come after every listing that has one.
MissingLast(out) ==
    \A i, j \in 1..Len(out) :
        (out[i].overall_score = None /\ out[j].overall_score # None) => j < i
C14_MissingScoresNeverRaise ==
    (\E i \in 1..Len(rin) : rin[i].overall_score = None) =>
        /\ rprint # "raised"
        /\ rcsv # "raised"
        /\ rprint = "printed" => MissingLast(rsorted)
        /\ rcsv = "returned" => MissingLast(rdf)

-----------------------------------------------------------------------------
(* The caches and the stored scores, checked under SpecEnrich.             *)

\* C19: every step keeps each key of each cache, with the value stored
\* under it: a cache only ever gains keys.
C19_CacheAppendOnly ==
    [][\A src \in Sources :
          \A key \in DOMAIN caches[src] :
              /\ key \in DOMAIN caches'[src]
              /\ caches'[src][key] = caches[src][key]]_vars

\* C19 witness: the run returned with two keys in every cache, so every
\* cache stored a second key while holding a first.
C19_Witness ==
    /\ apc = "returned"
    /\ \A src \in Sources : Cardinality(DOMAIN caches[src]) = 2

\* C20: a listing whose overall_score is set has its three signals set, and
\* the score is _calculate_overall_score of the stored signals; this holds
\* in every state of the loop, interrupted ones included.
C20_ScoreMatchesSignals ==
    \A i \in 1..Len(props) :
        props[i].overall_score # None =>
            /\ props[i].crime_score # None
            /\ props[i].school_score # None
            /\ props[i].market_distance # None
            /\ Val(props[i].overall_score) = calculate_overall_score(props[i])

\* C20 witness: an interrupt landed while the second listing was half
\* enriched and the first carried its score.
C20_Witness ==
    /\ apc = "interrupted"
    /\ Len(props) = 2
    /\ props[1].overall_score # None
    /\ props[2].crime_score # None
    /\ props[2].overall_score = None

-----------------------------------------------------------------------------
(* Region resolution, checked under SpecRegion.                            *)

\* The rows of a payload in payload order: sections in order, rows in order
\* within a section.
RECURSIVE RowsInOrder(_)
RowsInOrder(sections) ==
    IF sections = <<>> THEN <<>>
    ELSE Head(sections) \o RowsInOrder(Tail(sections))

Resolved == locResp # None /\ Val(locResp).kind = "ok"
PayloadOrder == RowsInOrder(Val(locResp).sections)
CityRows == {i \in 1..Len(PayloadOrder) : PayloadOrder[i].type = "city"}
CityRowsWithId == {i \in CityRows : PayloadOrder[i].tableId # 0}
First(S) == CHOOSE i \in S : \A j \in S : i <= j

\* C15 as stated: the identifier returned is that of the first row tagged
\* "city" in payload order.
C15_FirstCityRow ==
    (Resolved /\ CityRows # {}) =>
        /\ region_id # None
        /\ Val(region_id) = PayloadOrder[First(CityRows)].tableId

\* C15, amended: the identifier returned is that of the first row in payload
\* order that is tagged "city" and carries a non-empty identifier.
C15_FirstCityRowWithId ==
    (Resolved /\ CityRowsWithId # {}) =>
        region_id = Some(PayloadOrder[First(CityRowsWithId)].tableId)

\* C15 witness: two city rows with different identifiers, the first chosen.
C15_Witness ==
    /\ Resolved
    /\ Cardinality(CityRowsWithId) = 2
    /\ \E i, j \in CityRowsWithId :
          /\ i < j
          /\ PayloadOrder[i].tableId # PayloadOrder[j].tableId
          /\ region_id = Some(PayloadOrder[i].tableId)

\* The identifier came from exactMatch: no city row carries it.
FromExactMatch ==
    /\ region_id # None
    /\ region_id = Some(Val(locResp).exactMatch)
    /\ \A i \in CityRows : PayloadOrder[i].tableId # Val(region_id)

\* The primary fetch was not performed and the search went on to the
\* secondary strategy.
FetchSkipped ==
    /\ region_id = None
    /\ spc \in {"alternative", "sample", "returned", "raised"}
    /\ outcome["primary"] = "failed"
    /\ \A i \in 1..Len(result) : result[i].strategy # "primary"
    /\ spc # "alternative" => (Len(invoked) >= 2 /\ invoked[2] = "secondary")

\* C17 as stated: exactMatch is used only when no row is tagged "city"; with
\* neither a city row nor an exactMatch the fetch is skipped.
C17_ExactMatchOnlyWithoutCityRow ==
    Resolved =>
        /\ FromExactMatch => CityRows = {}
        /\ (CityRows = {} /\ Val(locResp).exactMatch = 0) => FetchSkipped

\* C17, amended: exactMatch is used only when no row tagged "city" carries a
\* non-empty identifier; with neither such a row nor an exactMatch
\* identifier the fetch is skipped and the secondary strategy comes next.
C17_ExactMatchOnlyWithoutCityId ==
    Resolved =>
        /\ FromExactMatch => CityRowsWithId = {}
        /\ (CityRowsWithId = {} /\ Val(locResp).exactMatch # 0) =>
              region_id = Some(Val(locResp).exactMatch)
        /\ (CityRowsWithId = {} /\ Val(locResp).exactMatch = 0) => FetchSkipped

\* C17 witness: a payload with a row of another type and no exactMatch; the
\* search went past the secondary strategy without a fetch.
C17_Witness ==
    /\ Resolved
    /\ PayloadOrder # <<>>
    /\ CityRows = {}
    /\ Val(locResp).exactMatch = 0
    /\ region_id = None
    /\ spc = "sample"

-----------------------------------------------------------------------------
(* A batch with one malformed record, checked under SpecFetch.             *)

Batch == Val(gisResp).homes
Malformed == {i \in 1..Len(Batch) : ~Batch[i].wellformed}
WellFormed == SelectSeq(Batch, LAMBDA h : h.wellformed)

\* C16: of a batch of N well-formed records and one malformed record the
\* search returns the N listings of the well-formed ones in payload order
\* (N >= 1; with N = 0 the fetch is empty and the search goes on), one
\* parse error is logged, and no exception leaves a search whose criteria
\* are valid.
C16_MalformedRecordSkipped ==
    (gisResp # None /\ Val(gisResp).kind = "ok" /\ Cardinality(Malformed) = 1) =>
        /\ parse_errors = 1
        /\ ValidCriteria(criteria) => spc # "raised"
        /\ IF WellFormed # <<>>
           THEN /\ spc = "returned"
                /\ outcome["primary"] = "nonempty"
                /\ Len(result) = Len(WellFormed)
                /\ \A k \in 1..Len(WellFormed) :
                      /\ result[k].strategy = "primary"
                      /\ result[k].address = WellFormed[k].streetLine
                      /\ result[k].mls_id = WellFormed[k].mlsId
           ELSE /\ outcome["primary"] = "empty"
                /\ \A k \in 1..Len(result) : result[k].strategy # "primary"

\* C16 witness: a batch of three, the malformed record between two
\* well-formed ones of different addresses.
C16_Witness ==
    /\ gisResp # None
    /\ Val(gisResp).kind = "ok"
    /\ Len(Batch) = 3
    /\ Malformed = {2}
    /\ Batch[1].streetLine # Batch[3].streetLine
    /\ spc = "returned"
    /\ Len(result) = 2

-----------------------------------------------------------------------------
(* The course of a search, checked under SpecLive.  The positions of       *)
(* search_properties stand for the states of the design: "start" is Init,  *)
(* "fetch" and "alternative" are TryingStrategy(1) and (2), "sample" is    *)
(* AllStrategiesExhausted, the step out of it is Fallback, and "returned"  *)
(* is Succeeded (a real strategy gave the result) or Done.                 *)

StateOrder ==
    {<<"start", "fetch">>, <<"start", "alternative">>,
     <<"fetch", "alternative">>, <<"fetch", "returned">>,
     <<"alternative", "sample">>, <<"alternative", "returned">>,
     <<"sample", "returned">>}

\* C18: a search over valid criteria steps only along the state order, takes
\* the fallback only after both real strategies were tried and gave
\* nothing, and eventually returns.
C18_StateOrderAndTermination ==
    /\ [][(ValidCriteria(criteria) /\ spc' # spc) =>
             /\ <<spc, spc'>> \in StateOrder
             /\ spc = "sample" =>
                   /\ invoked = <<"primary", "secondary">>
                   /\ outcome["primary"] \in {"empty", "failed"}
                   /\ outcome["secondary"] = "empty"]_vars
    /\ ValidCriteria(criteria) => <>(spc = "returned")

\* C18 witness: a search over valid criteria returned after the primary
\* fetch failed or came back empty and the secondary strategy gave nothing.
C18_Witness ==
    /\ ValidCriteria(criteria)
    /\ spc = "returned"
    /\ region_id # None
    /\ invoked = <<"primary", "secondary", "synthetic">>

-----------------------------------------------------------------------------
(* The sample data, checked under Spec.                                    *)

\* C21: for criteria with min_price <= max_price and min_beds <= max_beds,
\* every listing of the synthetic fallback has its price within
\* [min_price, max_price] and its beds within [min_beds, max_beds].
C21_SampleWithinCriteria ==
    (criteria.min_price <= criteria.max_price
        /\ criteria.min_beds <= criteria.max_beds) =>
        \A i \in 1..Len(result) :
            result[i].strategy = "synthetic" =>
                /\ criteria.min_price <= result[i].price
                /\ result[i].price <= criteria.max_price
                /\ criteria.min_beds <= result[i].beds
                /\ result[i].beds <= criteria.max_beds

\* C21 witness: the fallback returned, for criteria narrower than the value
\* ranges on one side and with room for two prices, listings at both ends
\* of the price range.
C21_Witness ==
    /\ spc = "returned"
    /\ outcome["synthetic"] = "nonempty"
    /\ criteria.min_price < criteria.max_price
    /\ criteria.min_beds = criteria.max_beds
    /\ criteria.min_beds = MaxBeds
    /\ \E i, j \in 1..Len(result) :
          /\ result[i].price = criteria.min_price
          /\ result[j].price = criteria.max_price

=============================================================================
